---- MODULE Spec2Model ----
(***************************************************************************)
(* Model of script-model-ai-codet5-codebert.py: one batch run that loads   *)
(* the CodeBERT/CodeT5 collaborators, classifies, scores and annotates the *)
(* blank-line-delimited segments of a log, audits the CMDB snapshot and    *)
(* saves the report.                                                       *)
(*                                                                         *)
(* Representation.  A text (a log segment, a label, a suggestion) is a     *)
(* sequence of tokens: a substring test of the code ("x in s",             *)
(* s.startswith(x)) is a test for a contiguous run (a prefix) of tokens,   *)
(* the empty text is << >>.  None and "" are both << >>: the code only     *)
(* ever tests such values for truthiness.  A version string is a sequence  *)
(* of one-character strings.  Scores are in hundredths of a percent        *)
(* (30.0 is 3000), the resolution round(x, 2) keeps.                       *)
(***************************************************************************)
EXTENDS Integers, Sequences, FiniteSets, TLC

VARIABLES
    pc,                  \* position of main()
    CODET5_SUGGESTIONS,  \* module global: the decoded catalog, <<key, text>> pairs
    codebert_tokenizer,  \* analyze_logs locals: TRUE when loaded, FALSE for None
    codebert_model,
    codet5_tokenizer,
    codet5_model,
    log_segments,        \* analyze_logs: the segments of the log, in order
    results,             \* analyze_logs: the log Findings so far
    details,             \* print_log_analysis_details: one entry per Finding
    cmdb_entries,        \* the (environment, service, config) entries of the CMDB, in order
    fs_paths,            \* paths for which os.path.exists is true
    cmdb_results,        \* analyze_cmdb_configurations: the CMDB Findings so far
    calls,               \* how each call made to each collaborator ended, in order
    call,                \* a direct call of one function: its arguments and result
    log_file,            \* LOG_PATH as analyze_logs found it: its state and text
    cmdb_file,           \* CMDB_PATH as load_cmdb found it
    synth_logs,          \* print_summary_table of the log Findings
    synth_cmdb,          \* print_summary_table of the CMDB Findings
    report_file          \* the text of OUTPUT_TXT_PATH

vars == <<pc, CODET5_SUGGESTIONS, codebert_tokenizer, codebert_model,
          codet5_tokenizer, codet5_model, log_segments, results, details,
          cmdb_entries, fs_paths, cmdb_results, calls, call,
          log_file, cmdb_file, synth_logs, synth_cmdb, report_file>>

---------------------------------------------------------------------------
(* Bounds of the model *)

MaxSegments == 2
MaxPhrases == 2
MaxEntries == 1
MaxCompletion == 2
MaxExtraKeys == 5
MaxFindings == 4
MaxRuns == 2

---------------------------------------------------------------------------
(* Text helpers *)

None == << >>

Truthy(text) == Len(text) > 0

Min(a, b) == IF a < b THEN a ELSE b

Max(a, b) == IF a > b THEN a ELSE b

\* str.lower() on one token
LowerWord(w) ==
    CASE w = "Jenkins" -> "jenkins"
      [] w = "SonarQube" -> "sonarqube"
      [] w = "Trivy" -> "trivy"
      [] w = "Kubernetes" -> "kubernetes"
      [] w = "SpringBoot" -> "springboot"
      [] w = "Other" -> "other"
      [] w = "Nexus" -> "nexus"
      [] w = "Minikube" -> "minikube"
      [] w = "Missing" -> "missing"
      [] w = "Git" -> "git"
      [] w = "Pipeline" -> "pipeline"
      [] w = "Sonar" -> "sonar"
      [] w = "SonarScanner" -> "sonarscanner"
      [] w = "ERROR" -> "error"
      [] w = "Errors" -> "errors"
      [] w = "FAILURE" -> "failure"
      [] w = "Failed" -> "failed"
      [] w = "Exception" -> "exception"
      [] w = "WARNING" -> "warning"
      [] w = "Warn" -> "warn"
      [] w = "INFO" -> "info"
      [] w = "BUILD" -> "build"
      [] OTHER -> w

Lower(text) == [i \in 1..Len(text) |-> LowerWord(text[i])]

\* "needle in text"
Contains(text, needle) ==
    \E i \in 0..(Len(text) - Len(needle)) :
        \A j \in 1..Len(needle) : text[i + j] = needle[j]

\* text.startswith(prefix)
StartsWith(text, prefix) ==
    /\ Len(prefix) <= Len(text)
    /\ \A j \in 1..Len(prefix) : text[j] = prefix[j]

\* whitespace for str.strip(): a blank or a newline
IsSpace(w) == w \in {" ", "\n"}

RECURSIVE LStrip(_)
LStrip(text) ==
    IF text # << >> /\ IsSpace(Head(text)) THEN LStrip(Tail(text)) ELSE text

RECURSIVE RStrip(_)
RStrip(text) ==
    IF text # << >> /\ IsSpace(text[Len(text)])
    THEN RStrip(SubSeq(text, 1, Len(text) - 1))
    ELSE text

\* str.strip()
Strip(text) == RStrip(LStrip(text))

\* the \w+ runs of one token, as the regex engine sees them between \b
WordsOf(w) ==
    CASE w = "ERROR:" -> {"ERROR"}
      [] w = "[ERROR]" -> {"ERROR"}
      [] w = "INFO:" -> {"INFO"}
      [] w = "report-task.txt" -> {"report", "task", "txt"}
      [] w = "sonar-maven-plugin" -> {"sonar", "maven", "plugin"}
      [] w = "apiVersion:" -> {"apiVersion"}
      [] w = "kind:" -> {"kind"}
      [] w = " " -> {}
      [] w = "\n" -> {}
      [] OTHER -> {w}

\* re.search(r'\bw1\b|\bw2\b|...', seg, re.IGNORECASE)
SearchWords(seg, lowered) ==
    \E i \in 1..Len(seg) : \E w \in WordsOf(seg[i]) : LowerWord(w) \in lowered

---------------------------------------------------------------------------
(* detect_issues *)

HasJenkinsMarker(seg) ==
    \/ Contains(seg, <<"Started", "by", "user">>)
    \/ Contains(seg, <<"Jenkins", "Build", "Log">>)
    \/ Contains(seg, <<"Pipeline">>)

HasSonarQubeMarker(seg) ==
    \/ Contains(seg, <<"SonarQube">>)
    \/ Contains(seg, <<"sonar-maven-plugin">>)

HasTrivyMarker(seg) ==
    \/ Contains(seg, <<"Trivy", "Security", "Scan">>)
    \/ Contains(seg, <<"Trivy", "log">>)

HasKubernetesMarker(seg) ==
    \/ Contains(seg, <<"apiVersion:", "v1">>)
    \/ Contains(seg, <<"kind:", "Pod">>)

HasSpringBootMarker(seg) ==
    \/ Contains(seg, <<"Spring", "Boot">>)
    \/ Contains(seg, <<"DockerSpringBootApplicationTests">>)

Issue(service, problem_type, critical_issue) ==
    [service |-> service, type |-> problem_type, critical_issue |-> critical_issue]

JenkinsIssue(seg) ==
    IF Contains(seg, <<"Selected", "Git", "installation", "does", "not", "exist">>)
    THEN Issue("Jenkins", "Git Error", <<"Missing", "Git", "configuration">>)
    ELSE IF Contains(seg, <<"No", "credentials", "specified">>)
    THEN Issue("Jenkins", "Authentication Problem",
               <<"Git", "credentials", "not", "configured">>)
    ELSE IF \/ Contains(seg, <<"Pipeline", "failed">>)
            \/ Contains(seg, <<"script", "returned", "exit", "code">>)
    THEN Issue("Jenkins", "Pipeline Failure", <<"Pipeline", "failed">>)
    ELSE Issue("Jenkins", "Build Execution", None)

SonarQubeIssue(seg) ==
    IF \/ Contains(seg, <<"can", "not", "be", "reached">>)
       \/ Contains(seg, <<"Connect", "timed", "out">>)
    THEN Issue("SonarQube", "Connection Error", <<"SonarQube", "unreachable">>)
    ELSE IF /\ Contains(seg, <<"report-task.txt">>)
            /\ Contains(seg, <<"Unable", "to", "locate">>)
    THEN Issue("SonarQube", "Missing Report", <<"Sonar", "report", "missing">>)
    ELSE Issue("SonarQube", "Code Analysis", None)

TrivyIssue(seg) ==
    IF \/ Contains(seg, <<"log", "non", "trouvé">>)
       \/ Contains(seg, <<"Trivy", "log", "non", "trouvé">>)
    THEN Issue("Trivy", "Configuration Problem", <<"Trivy", "log", "missing">>)
    ELSE Issue("Trivy", "Security Scan", None)

detect_issues_swapped(seg) ==
    IF HasSonarQubeMarker(seg) THEN SonarQubeIssue(seg)
    ELSE IF HasJenkinsMarker(seg) THEN JenkinsIssue(seg)
    ELSE IF HasTrivyMarker(seg) THEN TrivyIssue(seg)
    ELSE IF HasKubernetesMarker(seg) THEN Issue("Kubernetes", "Configuration", None)
    ELSE IF HasSpringBootMarker(seg) THEN Issue("SpringBoot", "Test Execution", None)
    ELSE Issue("Other", "Information", None)

detect_issues(seg) ==
    IF HasJenkinsMarker(seg) THEN JenkinsIssue(seg)
    ELSE IF HasSonarQubeMarker(seg) THEN SonarQubeIssue(seg)
    ELSE IF HasTrivyMarker(seg) THEN TrivyIssue(seg)
    ELSE IF HasKubernetesMarker(seg) THEN Issue("Kubernetes", "Configuration", None)
    ELSE IF HasSpringBootMarker(seg) THEN Issue("SpringBoot", "Test Execution", None)
    ELSE Issue("Other", "Information", None)

---------------------------------------------------------------------------
(* The embedded catalog and generate_custom_suggestion *)

\* The base64 text shipped in the script has 361 data characters: b64decode
\* raises on it.  A payload that decodes carries the catalog the script's
\* mapping_keys names.
ShippedPayload == [decodes |-> FALSE, data |-> << >>]

DecodablePayload ==
    [decodes |-> TRUE,
     data |-> << <<<<"Missing", "Git", "configuration">>, <<"catalog: configure the Git installation">>>>,
                 <<<<"Git", "credentials", "not", "configured">>, <<"catalog: bind Git credentials">>>>,
                 <<<<"SonarQube", "unreachable">>, <<"catalog: restore the SonarQube server">>>>,
                 <<<<"Trivy", "log", "missing">>, <<"catalog: create the Trivy log directory">>>>,
                 <<<<"Pipeline", "failed">>, <<"catalog: inspect the failed stage">>>>,
                 <<<<"SonarScanner", "failure">>, <<"catalog: check the scanner">>>>,
                 <<<<"Kubernetes", "configuration">>, <<"catalog: review the manifest">>>>,
                 <<<<"SpringBoot", "test", "info">>, <<"catalog: review the test report">>>> >>]

Payloads == {ShippedPayload, DecodablePayload}

\* _load_codeT5_suggestions: {} when the payload cannot be decoded
LoadCodeT5Suggestions(payload) ==
    IF payload.decodes THEN payload.data ELSE << >>

\* a str as a text: "" is the empty text
ServiceText(service) == IF service = "" THEN << >> ELSE <<service>>

\* for key, v in catalog.items(): if key.lower() in critical_issue.lower(): return v
IssueMatches(catalog, critical_issue) ==
    {i \in 1..Len(catalog) : Contains(Lower(critical_issue), Lower(catalog[i][1]))}

\* for k, v in catalog.items(): if k.lower().startswith(service.lower()): return v
ServiceMatches(catalog, service) ==
    {i \in 1..Len(catalog) : StartsWith(Lower(catalog[i][1]), Lower(ServiceText(service)))}

First(S) == CHOOSE i \in S : \A j \in S : i <= j

JenkinsRecommendation ==
    <<"Recommendation (Jenkins):",
      "1. Check global tool config for Git installations.",
      "2. Ensure credentials are configured and bound to jobs.",
      "3. Re-run the pipeline with full logs (-x) to find root causes.">>

SonarQubeRecommendation ==
    <<"Recommendation (SonarQube):",
      "1. Validate SonarQube server URL and availability.",
      "2. Verify scanner token and project key.",
      "3. Check network/firewall and proxy settings between Jenkins and SonarQube.">>

TrivyRecommendation ==
    <<"Recommendation (Trivy):",
      "1. Ensure Trivy log directory exists and is writable by Jenkins.",
      "2. Configure scheduled scans and store outputs centrally.",
      "3. Upgrade Trivy to latest stable release.">>

KubernetesRecommendation ==
    <<"Recommendation (Kubernetes):",
      "1. Add resource limits and requests for pods.",
      "2. Configure liveness & readiness probes.",
      "3. Use Secrets for sensitive config and enable monitoring addons.">>

GeneralRecommendation(service, problem_type) ==
    <<"General recommendation: Investigate ">> \o ServiceText(service)
        \o <<" (", problem_type, "), review logs, and apply best practices.">>

\* the per-service texts and the generic sentence (lines 247-277)
ServiceFallback(service, problem_type) ==
    IF service = "Jenkins" THEN JenkinsRecommendation
    ELSE IF service = "SonarQube" THEN SonarQubeRecommendation
    ELSE IF service = "Trivy" THEN TrivyRecommendation
    ELSE IF service = "Kubernetes" THEN KubernetesRecommendation
    ELSE GeneralRecommendation(service, problem_type)

\* the lookups in the embedded catalog, then the fallback texts (lines 235-277)
EmbeddedSuggestion(catalog, service, problem_type, critical_issue) ==
    IF Truthy(critical_issue) /\ IssueMatches(catalog, critical_issue) # {}
    THEN catalog[First(IssueMatches(catalog, critical_issue))][2]
    ELSE IF ServiceMatches(catalog, service) # {}
    THEN catalog[First(ServiceMatches(catalog, service))][2]
    ELSE ServiceFallback(service, problem_type)

CodeT5Attempt_unguarded(tokenizer, model, gen) ==
    IF tokenizer /\ model
    THEN IF gen.raises
         THEN [kind |-> "raise", text |-> << >>]
         ELSE [kind |-> "return", text |-> Strip(gen.text)]
    ELSE [kind |-> "pass", text |-> << >>]

\* The CodeT5 attempt (lines 217-233).  gen is what the collaborator does with
\* the prompt: it raises, or generate/decode yield gen.text.
CodeT5Attempt(tokenizer, model, gen) ==
    IF tokenizer /\ model
    THEN IF gen.raises
         THEN [kind |-> "pass", text |-> << >>]
         ELSE IF Truthy(Strip(gen.text))
              THEN [kind |-> "return", text |-> Strip(gen.text)]
              ELSE [kind |-> "pass", text |-> << >>]
    ELSE [kind |-> "pass", text |-> << >>]

\* The result of a call: the value returned, or raised = TRUE when an
\* exception leaves the function.
Returned(value) == [raised |-> FALSE, value |-> value]

Raised == [raised |-> TRUE, value |-> << >>]

generate_custom_suggestion_catalog_first(catalog, service, problem_type, critical_issue, context, tokenizer, model, gen) ==
    LET attempt == CodeT5Attempt(tokenizer, model, gen)
    IN  IF \/ Truthy(critical_issue) /\ IssueMatches(catalog, critical_issue) # {}
           \/ ServiceMatches(catalog, service) # {}
        THEN Returned(EmbeddedSuggestion(catalog, service, problem_type, critical_issue))
        ELSE IF attempt.kind = "return" THEN Returned(attempt.text)
        ELSE Returned(EmbeddedSuggestion(catalog, service, problem_type, critical_issue))

generate_custom_suggestion(catalog, service, problem_type, critical_issue, context, tokenizer, model, gen) ==
    LET attempt == CodeT5Attempt(tokenizer, model, gen)
    IN  IF attempt.kind = "raise" THEN Raised
        ELSE IF attempt.kind = "return" THEN Returned(attempt.text)
        ELSE Returned(EmbeddedSuggestion(catalog, service, problem_type, critical_issue))

---------------------------------------------------------------------------
(* Scores.  A score is kept in hundredths of a percent. *)

Percent == 100

\* a class probability of the softmax output, in units of 1/ProbOne
ProbOne == 1000 * Percent

\* round(float(prob) * 100, 2), round-half-even, for prob = p / ProbOne
Round2(p) ==
    LET q == p \div 10
        r == p % 10
    IN  IF r > 5 \/ (r = 5 /\ q % 2 = 1) THEN q + 1 ELSE q

\* lines 316-331.  bert is what the CodeBERT collaborator does with the
\* segment: the tokenizer/model call raises, the softmax/indexing raises, or
\* the model returns logits with bert.labels columns whose softmax gives
\* bert.prob to class 1.
CodeBertScore(bert) ==
    IF bert.kind = "call_raises" THEN 50 * Percent
    ELSE IF bert.kind = "softmax_raises" THEN 50 * Percent
    ELSE IF bert.labels > 1 THEN Round2(bert.prob)
    ELSE Round2(ProbOne)

MatchesErrorPattern(seg) ==
    SearchWords(seg, {"error", "failed", "failure", "exception"})

MatchesWarningPattern(seg) == SearchWords(seg, {"warn", "warning"})

FallbackScore_warning10(seg, critical_issue) ==
    LET s0 == 30 * Percent
        s1 == IF MatchesErrorPattern(seg) THEN s0 + 40 * Percent ELSE s0
        s2 == IF MatchesWarningPattern(seg) THEN s1 + 10 * Percent ELSE s1
        s3 == IF Truthy(critical_issue) THEN s2 + 10 * Percent ELSE s2
    IN  Min(s3, 100 * Percent)

\* lines 333-341
FallbackScore(seg, critical_issue) ==
    LET s0 == 30 * Percent
        s1 == IF MatchesErrorPattern(seg) THEN s0 + 40 * Percent ELSE s0
        s2 == IF MatchesWarningPattern(seg) THEN s1 + 15 * Percent ELSE s1
        s3 == IF Truthy(critical_issue) THEN s2 + 10 * Percent ELSE s2
    IN  Min(s3, 100 * Percent)

SegmentScore_heuristic_on_failure(tokenizer, model, seg, critical_issue, bert) ==
    IF tokenizer /\ model /\ bert.kind = "logits"
    THEN CodeBertScore(bert)
    ELSE FallbackScore(seg, critical_issue)

\* lines 316-341: the strategy is chosen by the two CodeBERT locals
SegmentScore(tokenizer, model, seg, critical_issue, bert) ==
    IF tokenizer /\ model
    THEN CodeBertScore(bert)
    ELSE FallbackScore(seg, critical_issue)

get_severity_inclusive(score) ==
    IF score >= 75 * Percent THEN "high"
    ELSE IF score > 50 * Percent THEN "medium"
    ELSE "low"

get_severity(score) ==
    IF score > 75 * Percent THEN "high"
    ELSE IF score > 50 * Percent THEN "medium"
    ELSE "low"

---------------------------------------------------------------------------
(* analyze_service_config.  A version is a sequence of characters. *)

Digits == {"0", "1", "2", "3", "4", "5", "6", "7", "8", "9"}

DigitValue(c) ==
    CASE c = "0" -> 0 [] c = "1" -> 1 [] c = "2" -> 2 [] c = "3" -> 3
      [] c = "4" -> 4 [] c = "5" -> 5 [] c = "6" -> 6 [] c = "7" -> 7
      [] c = "8" -> 8 [] c = "9" -> 9

\* position of the first c in s, Len(s) + 1 when there is none
RECURSIVE IndexOf(_, _)
IndexOf(s, c) ==
    IF s = << >> THEN 1
    ELSE IF Head(s) = c THEN 1
    ELSE 1 + IndexOf(Tail(s), c)

\* s.split(c)[0]
SplitFirst(s, c) == SubSeq(s, 1, IndexOf(s, c) - 1)

\* s.lstrip(c)
RECURSIVE LStripChar(_, _)
LStripChar(s, c) ==
    IF s # << >> /\ Head(s) = c THEN LStripChar(Tail(s), c) ELSE s

RECURSIVE RStripChar(_, _)
RStripChar(s, c) ==
    IF s # << >> /\ s[Len(s)] = c
    THEN RStripChar(SubSeq(s, 1, Len(s) - 1), c)
    ELSE s

\* s.strip(c)
StripChar(s, c) == RStripChar(LStripChar(s, c), c)

AllDigits(s) == \A i \in 1..Len(s) : s[i] \in Digits

\* the digits of s as a number
RECURSIVE DigitsValue(_)
DigitsValue(s) ==
    IF s = << >> THEN 0
    ELSE 10 * DigitsValue(SubSeq(s, 1, Len(s) - 1)) + DigitValue(s[Len(s)])

\* Whether float(s) raises ValueError, for s over digits, "." and letters:
\* float takes digits with at most one ".", and at least one digit.
FloatRaises(s) ==
    LET int == SplitFirst(s, ".")
        frac == SubSeq(s, IndexOf(s, ".") + 1, Len(s))
    IN  ~ (/\ AllDigits(int)
           /\ AllDigits(frac)
           /\ Len(int) + Len(frac) > 0)

\* floor(float(s) * 100): the comparisons of the code are against multiples
\* of 0.01, which the floor keeps
FloatHundredths(s) ==
    LET int == SplitFirst(s, ".")
        frac == SubSeq(s, IndexOf(s, ".") + 1, Len(s))
        two == SubSeq(frac \o <<"0", "0">>, 1, 2)
    IN  100 * DigitsValue(int) + DigitsValue(two)

\* config.get(key, default)
ConfigGet(config, key, default) ==
    IF key \in DOMAIN config THEN config[key] ELSE default

\* what a service branch adds: issues, the weight on the base score, the text
Audit(issues, weight, suggestion) ==
    [issues |-> issues, weight |-> weight, suggestion |-> suggestion]

JenkinsSuggestion ==
    <<"Jenkins recommendations:", "1. Update to the latest LTS.",
      "2. Configure Git plugin and credential bindings.",
      "3. Enable job monitoring and role-based access.">>

SonarQubeSuggestion ==
    <<"SonarQube recommendations:", "1. Update to 10.x LTS.",
      "2. Configure quality gates and scanners.",
      "3. Ensure report-task.txt is produced by analyzer.">>

TrivySuggestion ==
    <<"Trivy recommendations:", "1. Upgrade Trivy to latest stable.",
      "2. Ensure logs directory exists and Jenkins can write.",
      "3. Schedule periodic scans and centralize results.">>

MinikubeSuggestion ==
    <<"Minikube recommendations:", "1. Upgrade to v1.33+.",
      "2. Assign resources and enable monitoring addons.">>

SpringBootSuggestion ==
    <<"Spring Boot recommendations:", "1. Configure resource limits and requests.",
      "2. Add liveness/readiness probes.",
      "3. Enable horizontal pod autoscaling where relevant.">>

\* lines 415-431: a float() that raises skips the check
JenkinsAudit(version) ==
    IF /\ Truthy(version)
       /\ ~FloatRaises(SplitFirst(version, "."))
       /\ FloatHundredths(SplitFirst(version, ".")) < 2 * 100
    THEN Audit(<<"Jenkins version seems outdated">>, 30, JenkinsSuggestion)
    ELSE Audit(<< >>, 0, JenkinsSuggestion)

SonarQubeAudit_weight40(version) ==
    IF StartsWith(version, <<"9", ".", "9">>)
    THEN Audit(<<"SonarQube 9.9 may not be fully supported; consider 10.x LTS">>,
               40, SonarQubeSuggestion)
    ELSE Audit(<< >>, 0, SonarQubeSuggestion)

\* lines 433-442
SonarQubeAudit(version) ==
    IF StartsWith(version, <<"9", ".", "9">>)
    THEN Audit(<<"SonarQube 9.9 may not be fully supported; consider 10.x LTS">>,
               30, SonarQubeSuggestion)
    ELSE Audit(<< >>, 0, SonarQubeSuggestion)

\* lines 444-459
TrivyAudit(version, config, paths) ==
    LET old == /\ Truthy(version)
               /\ ~FloatRaises(StripChar(version, "v"))
               /\ FloatHundredths(StripChar(version, "v")) < 50
        nologs == ConfigGet(config, "logs", "") \notin paths
    IN  Audit((IF old THEN <<"Trivy version is older than recommended">> ELSE << >>)
                \o (IF nologs THEN <<"Trivy logs path is missing or inaccessible">>
                    ELSE << >>),
              (IF old THEN 20 ELSE 0) + (IF nologs THEN 20 ELSE 0),
              TrivySuggestion)

\* lines 461-472
MinikubeAudit(version) ==
    IF /\ Truthy(version)
       /\ StartsWith(version, <<"v">>)
       /\ ~FloatRaises(SplitFirst(LStripChar(version, "v"), "."))
       /\ FloatHundredths(SplitFirst(LStripChar(version, "v"), ".")) < 130
    THEN Audit(<<"Minikube version is outdated">>, 20, MinikubeSuggestion)
    ELSE Audit(<< >>, 0, MinikubeSuggestion)

\* lines 474-483
SpringBootAudit(config) ==
    IF ~Truthy(ConfigGet(config, "resources", << >>))
    THEN Audit(<<"Resource limits not configured for Spring Boot container">>,
               30, SpringBootSuggestion)
    ELSE Audit(<< >>, 0, SpringBootSuggestion)

\* the if/elif chain on service.lower() (lines 415-483)
ServiceAudit(service, version, config, paths) ==
    IF LowerWord(service) = "jenkins" THEN JenkinsAudit(version)
    ELSE IF LowerWord(service) = "sonarqube" THEN SonarQubeAudit(version)
    ELSE IF LowerWord(service) = "trivy" THEN TrivyAudit(version, config, paths)
    ELSE IF LowerWord(service) = "minikube" THEN MinikubeAudit(version)
    ELSE IF LowerWord(service) \in {"springboot-app", "springboot"}
    THEN SpringBootAudit(config)
    ELSE Audit(<< >>, 0, << >>)

AuditScore_unclamped(weight, config) ==
    (30 + weight + Max(0, Cardinality(DOMAIN config) * 5)) * Percent

AuditScore_base_dropped(weight, config) ==
    Min((weight + Max(0, Cardinality(DOMAIN config) * 5)) * Percent, 100 * Percent)

\* line 485, in hundredths of a percent
AuditScore(weight, config) ==
    Min((30 + weight + Max(0, Cardinality(DOMAIN config) * 5)) * Percent, 100 * Percent)

analyze_service_config(service, config, env, paths) ==
    LET version == Strip(ConfigGet(config, "version", << >>))
        audit == ServiceAudit(service, version, config, paths)
    IN  [service |-> service,
         environment |-> env,
         version |-> IF Truthy(version) THEN version ELSE <<"N", "/", "A">>,
         score |-> AuditScore(audit.weight, config),
         issues |-> audit.issues,
         suggestion |-> audit.suggestion]

---------------------------------------------------------------------------
(* print_summary_table *)

InsertByScore_before_equals(order, rs, n) ==
    LET k == Cardinality({i \in 1..Len(order) : rs[order[i]].score > rs[n].score})
    IN  SubSeq(order, 1, k) \o <<n>> \o SubSeq(order, k + 1, Len(order))

\* the order after inserting Finding n into an order sorted by descending
\* score: behind every Finding whose score is not lower, a sort being stable
InsertByScore(order, rs, n) ==
    LET k == Cardinality({i \in 1..Len(order) : rs[order[i]].score >= rs[n].score})
    IN  SubSeq(order, 1, k) \o <<n>> \o SubSeq(order, k + 1, Len(order))

\* line 554: sorted(results, key=lambda x: x.get("score", 0), reverse=True),
\* as the positions in results of the Findings of the sorted list
RECURSIVE SortedByScore(_, _)
SortedByScore(rs, n) ==
    IF n = 0 THEN << >> ELSE InsertByScore(SortedByScore(rs, n - 1), rs, n)

\* line 554: [:3]
Top3(rs) == SubSeq(SortedByScore(rs, Len(rs)), 1, Min(3, Len(rs)))

\* lines 536-546: one row per Finding, numbered from 1
TableData(rs, context) ==
    [i \in 1..Len(rs) |->
        [id |-> i, service |-> rs[i].service,
         desc |-> IF context = "logs" THEN rs[i].type ELSE rs[i].environment,
         severity |-> get_severity(rs[i].score), score |-> rs[i].score]]

\* lines 533-560
print_summary_table(rs, context) ==
    [table |-> TableData(rs, context), top3 |-> Top3(rs)]

\* no table was printed
NoSummary == [table |-> << >>, top3 |-> << >>]

---------------------------------------------------------------------------
(* save_output_to_file *)

\* lines 90-91: the ANSI codes of the header, ESC standing for \x1b
Yellow == "ESC[33;1m"

Reset == "ESC[0m"

\* "=" * MAX_LINE_WIDTH
Rule == "===="

\* lines 94-98
FileHeader(timestamp) ==
    <<"\n", Yellow, Rule, Reset, "\n",
      Yellow, "ANALYSIS TIMESTAMP:", timestamp, Reset, "\n",
      Yellow, Rule, Reset, "\n", "\n">>

\* the tokens that match \x1b\[[0-9;]*m
StyleCodes == {Yellow, Reset, "ESC[31m", "ESC[m"}

IsStyleCode(t) == t \in StyleCodes

CleanContent_unstripped(content) == content

\* line 101: re.sub(r'\x1b\[[0-9;]*m', '', content)
RECURSIVE CleanContent(_)
CleanContent(content) ==
    IF content = << >> THEN << >>
    ELSE IF IsStyleCode(Head(content)) THEN CleanContent(Tail(content))
    ELSE <<Head(content)>> \o CleanContent(Tail(content))

\* lines 103-104: what the two writes send to the file
Written(content, timestamp) ==
    FileHeader(timestamp) \o CleanContent(content) \o <<"\n">>

\* lines 88-107.  The file is opened for appending; when the open, a write or
\* the close raises, outcome.written tokens have reached the file, and the
\* except clause prints the error.
save_output_to_file(file, content, timestamp, outcome) ==
    IF outcome.raises
    THEN [file |-> file \o SubSeq(Written(content, timestamp), 1, outcome.written),
          printed |-> "Error saving results", raised |-> FALSE]
    ELSE [file |-> file \o Written(content, timestamp),
          printed |-> "Results saved", raised |-> FALSE]

---------------------------------------------------------------------------
(* Inputs: what the collaborators and the files may hold *)

\* what datetime.now() may format to
Timestamps == {"2025-01-01 10:00:00", "2025-01-01 10:00:01"}

HeaderLen == Len(FileHeader("2025-01-01 10:00:00"))

\* how a save may end: it succeeds, or it fails with nothing written, with
\* the header written, or within the report
SaveOutcomes ==
    {[raises |-> FALSE, written |-> 0]}
    \cup [raises : {TRUE}, written : {0, HeaderLen, HeaderLen + 1}]

\* what OUTPUT_TXT_PATH holds when a run starts
EarlierReports == <<"\n", "earlier report", "\n">>

\* behaviours of one CodeBERT scoring call
ProbSamples == {0, 75006, ProbOne}

BertOutcomes ==
    {[kind |-> "call_raises", labels |-> 0, prob |-> 0],
     [kind |-> "softmax_raises", labels |-> 2, prob |-> 0]}
    \cup [kind : {"logits"}, labels : {2}, prob : ProbSamples]
    \cup {[kind |-> "logits", labels |-> 1, prob |-> ProbOne]}

\* texts of at most n tokens over the set of tokens T
RECURSIVE TextsUpTo(_, _)
TextsUpTo(T, n) ==
    IF n = 0 THEN {<< >>}
    ELSE LET shorter == TextsUpTo(T, n - 1)
         IN  shorter \cup {Append(t, w) : t \in shorter, w \in T}

\* behaviours of one CodeT5 generation call
GenOutcomes ==
    {[raises |-> TRUE, text |-> << >>]}
    \cup [raises : {FALSE}, text : TextsUpTo({" ", "Restart the build agent."}, MaxCompletion)]

\* the behaviours of the two collaborators within a whole run
RunBertOutcomes ==
    {[kind |-> "call_raises", labels |-> 0, prob |-> 0],
     [kind |-> "logits", labels |-> 2, prob |-> 75006]}

RunGenOutcomes ==
    {[raises |-> TRUE, text |-> << >>],
     [raises |-> FALSE, text |-> <<" ">>],
     [raises |-> FALSE, text |-> <<"Restart the build agent.", " ">>]}

\* the blocks of the log of a run; the log is blocks joined by blank lines
RunBlocks ==
    {<<"Jenkins", "Build", "Log", "\n", "No", "credentials", "specified">>,
     <<"\n", "INFO:", "build", "finished">>,
     <<" ", "SonarQube", "Connect", "timed", "out", "ERROR:", "WARNING", " ">>,
     <<" ">>}

BlankLine == <<"\n", "\n">>

\* the text of a log file made of these blocks
RECURSIVE JoinBlocks(_)
JoinBlocks(blocks) ==
    IF blocks = << >> THEN << >>
    ELSE IF Len(blocks) = 1 THEN Head(blocks)
    ELSE Head(blocks) \o BlankLine \o JoinBlocks(Tail(blocks))

UnreadLog == [state |-> "unread", text |-> << >>]

AbsentLog == [state |-> "absent", text |-> << >>]

LogText(text) == [state |-> "read", text |-> text]

\* sequences of at most n elements of S
RECURSIVE SeqsUpTo(_, _)
SeqsUpTo(S, n) ==
    IF n = 0 THEN {<< >>}
    ELSE LET shorter == SeqsUpTo(S, n - 1)
         IN  shorter \cup {Append(q, x) : q \in shorter, x \in S}

TrivyLogs == "/opt/devsecops-ai/trivy-logs"

Entry(env, service, config) == [env |-> env, service |-> service, config |-> config]

\* the (environment, service, config) entries of the CMDB of a run
RunEntries ==
    {Entry("prod", "sonarqube", [k \in {"version"} |-> <<"9", ".", "9", ".", "1">>]),
     Entry("prod", "nexus", << >>),
     Entry("dev", "trivy", [k \in {"version", "logs"} |->
                              IF k = "version" THEN <<"v", "0", ".", "4", "5">>
                              ELSE TrivyLogs])}

---------------------------------------------------------------------------
(* The run: main() *)

Init ==
    /\ log_file = UnreadLog
    /\ cmdb_file = "unread"
    /\ synth_logs = NoSummary
    /\ synth_cmdb = NoSummary
    /\ report_file = EarlierReports
    /\ pc = "load_models"
    /\ CODET5_SUGGESTIONS = LoadCodeT5Suggestions(ShippedPayload)
    /\ codebert_tokenizer = FALSE
    /\ codebert_model = FALSE
    /\ codet5_tokenizer = FALSE
    /\ codet5_model = FALSE
    /\ log_segments = << >>
    /\ results = << >>
    /\ details = << >>
    /\ cmdb_entries = << >>
    /\ fs_paths = {}
    /\ cmdb_results = << >>
    /\ calls = [codebert |-> << >>, codet5 |-> << >>]
    /\ call = [fn |-> "none"]

\* lines 287-298: the four from_pretrained calls in one try; the load numbered
\* failAt raises (0: none does), and the names bound before it stay bound
LoadedAfter(failAt) ==
    [codebert_tokenizer |-> failAt = 0 \/ failAt > 1,
     codebert_model |-> failAt = 0 \/ failAt > 2,
     codet5_tokenizer |-> failAt = 0 \/ failAt > 3,
     codet5_model |-> failAt = 0]

LoadModels ==
    /\ pc = "load_models"
    /\ \E failAt \in 0..4 :
        /\ codebert_tokenizer' = LoadedAfter(failAt).codebert_tokenizer
        /\ codebert_model' = LoadedAfter(failAt).codebert_model
        /\ codet5_tokenizer' = LoadedAfter(failAt).codet5_tokenizer
        /\ codet5_model' = LoadedAfter(failAt).codet5_model
    /\ pc' = "read_log"
    /\ UNCHANGED <<CODET5_SUGGESTIONS, log_segments, results, details,
                   cmdb_entries, fs_paths, cmdb_results, calls, call,
                   log_file, cmdb_file, synth_logs, synth_cmdb, report_file>>

\* line 311: logs.split("\n\n"), the separators found from left to right
RECURSIVE SplitBlankLines(_)
SplitBlankLines(logs) ==
    IF Contains(logs, BlankLine)
    THEN LET at == CHOOSE i \in 1..(Len(logs) - 1) :
                      /\ SubSeq(logs, i, i + 1) = BlankLine
                      /\ \A j \in 1..(i - 1) : SubSeq(logs, j, j + 1) # BlankLine
         IN  <<SubSeq(logs, 1, at - 1)>>
                 \o SplitBlankLines(SubSeq(logs, at + 2, Len(logs)))
    ELSE <<logs>>

RECURSIVE Segmenter_unfiltered(_)
Segmenter_unfiltered(blocks) ==
    IF blocks = << >> THEN << >>
    ELSE <<Strip(Head(blocks))>> \o Segmenter_unfiltered(Tail(blocks))

\* line 311: [seg.strip() for seg in ... if seg.strip()]
RECURSIVE Segmenter(_)
Segmenter(blocks) ==
    IF blocks = << >> THEN << >>
    ELSE IF Truthy(Strip(Head(blocks)))
    THEN <<Strip(Head(blocks))>> \o Segmenter(Tail(blocks))
    ELSE Segmenter(Tail(blocks))

\* lines 300-311: the log file is absent, or read and split
ReadLog ==
    /\ pc = "read_log"
    /\ \/ /\ log_file' = AbsentLog
          /\ log_segments' = << >>
          /\ pc' = "report_logs"
       \/ \E blocks \in SeqsUpTo(RunBlocks, MaxSegments) :
            /\ log_file' = LogText(JoinBlocks(blocks))
            /\ log_segments' = Segmenter(SplitBlankLines(JoinBlocks(blocks)))
            /\ pc' = "segments"
    /\ UNCHANGED <<CODET5_SUGGESTIONS, codebert_tokenizer, codebert_model,
                   codet5_tokenizer, codet5_model, results, details,
                   cmdb_entries, fs_paths, cmdb_results, calls, call,
                   cmdb_file, synth_logs, synth_cmdb, report_file>>

\* lines 349-356
Finding(issue, score, seg, suggestion) ==
    [service |-> issue.service, type |-> issue.type, score |-> score,
     segment |-> seg, suggestion |-> suggestion,
     critical_issue |-> issue.critical_issue]

\* A collaborator is called only when both of its names are bound (lines 217
\* and 317): without a call there is no behaviour to choose.
Behaviours(tokenizer, model, behaviours, idle) ==
    IF tokenizer /\ model THEN behaviours ELSE {idle}

IdleBert == [kind |-> "call_raises", labels |-> 0, prob |-> 0]

IdleGen == [raises |-> TRUE, text |-> << >>]

\* the log of a collaborator's calls after this iteration
Called(log, tokenizer, model, how) ==
    IF tokenizer /\ model THEN Append(log, how) ELSE log

\* lines 313-356: one iteration of the loop over the segments, the two
\* collaborators behaving as one of berts and one of gens
ProcessSegmentWith(berts, gens) ==
    /\ pc = "segments"
    /\ Len(results) < Len(log_segments)
    /\ LET seg == log_segments[Len(results) + 1]
           issue == detect_issues(seg)
       IN  \E bert \in Behaviours(codebert_tokenizer, codebert_model, berts, IdleBert),
              gen \in Behaviours(codet5_tokenizer, codet5_model, gens, IdleGen) :
            LET score == SegmentScore(codebert_tokenizer, codebert_model, seg,
                                      issue.critical_issue, bert)
                suggestion == generate_custom_suggestion(CODET5_SUGGESTIONS,
                                  issue.service, issue.type, issue.critical_issue, seg,
                                  codet5_tokenizer, codet5_model, gen)
            IN  /\ calls' = [codebert |-> Called(calls.codebert, codebert_tokenizer,
                                                  codebert_model, bert.kind),
                             codet5 |-> Called(calls.codet5, codet5_tokenizer,
                                                codet5_model,
                                                IF gen.raises THEN "raises" ELSE "returns")]
                /\ IF suggestion.raised
                   THEN /\ pc' = "crashed"
                        /\ UNCHANGED results
                   ELSE /\ results' = Append(results,
                                Finding(issue, score, seg, suggestion.value))
                        /\ pc' = pc
    /\ UNCHANGED <<CODET5_SUGGESTIONS, codebert_tokenizer, codebert_model,
                   codet5_tokenizer, codet5_model, log_segments, details,
                   cmdb_entries, fs_paths, cmdb_results, call,
                   log_file, cmdb_file, synth_logs, synth_cmdb, report_file>>

ProcessSegment == ProcessSegmentWith(RunBertOutcomes, RunGenOutcomes)

\* lines 358-362: the loop is over, analyze_logs returns
FinishLogs ==
    /\ pc = "segments"
    /\ Len(results) = Len(log_segments)
    /\ pc' = "report_logs"
    /\ UNCHANGED <<CODET5_SUGGESTIONS, codebert_tokenizer, codebert_model,
                   codet5_tokenizer, codet5_model, log_segments, results, details,
                   cmdb_entries, fs_paths, cmdb_results, calls, call,
                   log_file, cmdb_file, synth_logs, synth_cmdb, report_file>>

\* lines 365-404: one detail entry per Finding, numbered from 1
print_log_analysis_details(rs) ==
    [i \in 1..Len(rs) |->
        [id |-> i, service |-> rs[i].service, type |-> rs[i].type,
         score |-> rs[i].score, severity |-> get_severity(rs[i].score)]]

\* lines 570-577: the details, when there are log Findings
ReportLogs ==
    /\ pc = "report_logs"
    /\ details' = IF results # << >> THEN print_log_analysis_details(results) ELSE << >>
    /\ synth_logs' = IF results # << >> THEN print_summary_table(results, "logs")
                     ELSE NoSummary
    /\ pc' = "load_cmdb"
    /\ UNCHANGED <<CODET5_SUGGESTIONS, codebert_tokenizer, codebert_model,
                   codet5_tokenizer, codet5_model, log_segments, results,
                   cmdb_entries, fs_paths, cmdb_results, calls, call,
                   log_file, cmdb_file, synth_cmdb, report_file>>

\* lines 133-142, 580-581 and 497-504: load_cmdb and the start of the audit.
\* An absent file and one json reports as JSONDecodeError give {}, and the
\* audit has no data.  A file that is not UTF-8 makes json.load raise
\* UnicodeDecodeError and an unclosed nesting deeper than the interpreter's
\* stack makes it raise RecursionError, which line 140 does not catch; a
\* document that is not an object (and is truthy) has no get at line 504:
\* all three end main().  An object gives its entries; the paths that exist
\* are those of the time of the audit.
LoadCmdb ==
    /\ pc = "load_cmdb"
    /\ \/ /\ cmdb_file' \in {"absent", "invalid_syntax"}
          /\ cmdb_entries' = << >>
          /\ fs_paths' = {}
          /\ pc' = "audit"
       \/ /\ cmdb_file' \in {"invalid_encoding", "invalid_nesting", "not_a_mapping"}
          /\ pc' = "crashed"
          /\ UNCHANGED <<cmdb_entries, fs_paths>>
       \/ /\ cmdb_file' = "mapping"
          /\ \E entries \in SeqsUpTo(RunEntries, MaxEntries) : cmdb_entries' = entries
          /\ fs_paths' \in {{}, {TrivyLogs}}
          /\ pc' = "audit"
    /\ UNCHANGED <<CODET5_SUGGESTIONS, codebert_tokenizer, codebert_model,
                   codet5_tokenizer, codet5_model, log_segments, results, details,
                   cmdb_results, calls, call,
                   log_file, synth_logs, synth_cmdb, report_file>>

\* lines 506-508: one iteration of the loop over the services
AuditEntry ==
    /\ pc = "audit"
    /\ Len(cmdb_results) < Len(cmdb_entries)
    /\ LET e == cmdb_entries[Len(cmdb_results) + 1]
       IN  cmdb_results' = Append(cmdb_results,
               analyze_service_config(e.service, e.config, e.env, fs_paths))
    /\ pc' = pc
    /\ UNCHANGED <<CODET5_SUGGESTIONS, codebert_tokenizer, codebert_model,
                   codet5_tokenizer, codet5_model, log_segments, results, details,
                   cmdb_entries, fs_paths, calls, call,
                   log_file, cmdb_file, synth_logs, synth_cmdb, report_file>>

\* lines 582-587: what main() has put into full_output, one token per
\* section header and per message, and one per detail entry
FullOutput ==
    <<"DEEP LOG ANALYSIS">>
    \o (IF log_file.state = "absent" THEN <<"Log file not found">> ELSE << >>)
    \o (IF results # << >>
        THEN <<"DETAILED DIAGNOSTIC BY SERVICE">>
                 \o [i \in 1..Len(details) |-> details[i].service]
                 \o <<"SYNTHESIS - LOG ANALYSIS">>
        ELSE << >>)
    \o <<"CMDB CONFIGURATION AUDIT">>
    \o (IF cmdb_file # "mapping" THEN <<"No CMDB data to analyze.">> ELSE << >>)
    \o (IF cmdb_results # << >> THEN <<"SYNTHESIS - CMDB AUDIT">> ELSE << >>)

\* lines 530 and 584-589: the audit returns, its table is printed when
\* there are CMDB Findings, and the report is saved
FinishAuditWith(timestamps, outcomes) ==
    /\ pc = "audit"
    /\ Len(cmdb_results) = Len(cmdb_entries)
    /\ synth_cmdb' = IF cmdb_results # << >> THEN print_summary_table(cmdb_results, "cmdb")
                     ELSE NoSummary
    /\ \E timestamp \in timestamps, outcome \in outcomes :
          report_file' = save_output_to_file(report_file, FullOutput,
                                             timestamp, outcome).file
    /\ pc' = "done"
    /\ UNCHANGED <<CODET5_SUGGESTIONS, codebert_tokenizer, codebert_model,
                   codet5_tokenizer, codet5_model, log_segments, results, details,
                   cmdb_entries, fs_paths, cmdb_results, calls, call,
                   log_file, cmdb_file, synth_logs>>

\* within a whole run: one timestamp; the save succeeds or nothing is written
RunSaveOutcomes ==
    {[raises |-> FALSE, written |-> 0], [raises |-> TRUE, written |-> 0]}

FinishAudit == FinishAuditWith({"2025-01-01 10:00:00"}, RunSaveOutcomes)

Next ==
    \/ LoadModels
    \/ ReadLog
    \/ ProcessSegment
    \/ FinishLogs
    \/ ReportLogs
    \/ LoadCmdb
    \/ AuditEntry
    \/ FinishAudit

Spec == Init /\ [][Next]_vars

---------------------------------------------------------------------------
(* One Finding at a time: the loop bodies on any segment and any entry *)

\* lines of build logs; a segment is a run of them
Phrases ==
    {<<"Started", "by", "user", "admin">>,
     <<"Jenkins", "Build", "Log", "script", "returned", "exit", "code", "1">>,
     <<"Pipeline", "failed">>,
     <<"Selected", "Git", "installation", "does", "not", "exist">>,
     <<"No", "credentials", "specified">>,
     <<"SonarQube", "server", "can", "not", "be", "reached">>,
     <<"sonar-maven-plugin", "Unable", "to", "locate", "report-task.txt">>,
     <<"Trivy", "Security", "Scan", "WARNING", "errors">>,
     <<"Trivy", "log", "non", "trouvé">>,
     <<"apiVersion:", "v1", "kind:", "Pod">>,
     <<"Spring", "Boot", "DockerSpringBootApplicationTests">>,
     <<"[ERROR]", "BUILD", "FAILURE">>,
     <<"INFO:", "build", "finished">>}

\* the segments of 1..n phrases
RECURSIVE SegmentsOf(_)
SegmentsOf(n) ==
    IF n = 1 THEN Phrases
    ELSE LET shorter == SegmentsOf(n - 1)
         IN  shorter \cup {s \o p : s \in shorter, p \in Phrases}

Segments == SegmentsOf(MaxPhrases)

Versions ==
    {<< >>,
     <<"9", ".", "9", ".", "1">>,
     <<"1", "0", ".", "3">>,
     <<"1", ".", "6", "5", "1">>,
     <<"2", ".", "4", "4", "0", ".", "3">>,
     <<"v", "0", ".", "4", "5">>,
     <<"0", ".", "5", "5">>,
     <<"v", "0", ".", "2", "9">>,
     <<"v", "1", ".", "3", "3">>,
     <<"l", "t", "s">>,
     <<" ", "9", ".", "9", " ">>}

Services ==
    {"jenkins", "Jenkins", "sonarqube", "SonarQube", "trivy", "minikube",
     "springboot-app", "springboot", "nexus"}

\* the config mappings: any subset of the keys, each with one of its values
KeyValues(k) ==
    CASE k = "version" -> Versions \ {<< >>}
      [] k = "logs" -> {TrivyLogs}
      [] k = "resources" -> {<< >>, <<"cpu: 500m">>}
      [] OTHER -> {"yes"}

WithKey(configs, k) ==
    configs \cup {c @@ (k :> v) : c \in configs, v \in KeyValues(k)}

\* a config with n more keys, each with one value
ExtraKeys == <<"url", "port", "namespace", "owner", "plugins", "backup">>

RECURSIVE WithExtraKeys(_, _)
WithExtraKeys(c, n) ==
    IF n = 0 THEN c ELSE WithExtraKeys(c, n - 1) @@ (ExtraKeys[n] :> "yes")

Configs ==
    {WithExtraKeys(c, n) :
        c \in WithKey(WithKey(WithKey({<< >>}, "version"), "logs"), "resources"),
        n \in 0..MaxExtraKeys}

InitFinding ==
    /\ log_file = UnreadLog
    /\ cmdb_file = "unread"
    /\ synth_logs = NoSummary
    /\ synth_cmdb = NoSummary
    /\ report_file = << >>
    /\ details = << >>
    /\ results = << >>
    /\ cmdb_results = << >>
    /\ calls = [codebert |-> << >>, codet5 |-> << >>]
    /\ call = [fn |-> "none"]
    /\ \/ /\ pc = "segments"
          /\ \E failAt \in 0..4 :
                /\ codebert_tokenizer = LoadedAfter(failAt).codebert_tokenizer
                /\ codebert_model = LoadedAfter(failAt).codebert_model
                /\ codet5_tokenizer = LoadedAfter(failAt).codet5_tokenizer
                /\ codet5_model = LoadedAfter(failAt).codet5_model
          /\ CODET5_SUGGESTIONS \in {LoadCodeT5Suggestions(p) : p \in Payloads}
          /\ \E seg \in Segments : log_segments = <<seg>>
          /\ cmdb_entries = << >>
          /\ fs_paths = {}
       \/ /\ pc = "audit"
          /\ codebert_tokenizer = FALSE
          /\ codebert_model = FALSE
          /\ codet5_tokenizer = FALSE
          /\ codet5_model = FALSE
          /\ CODET5_SUGGESTIONS = LoadCodeT5Suggestions(ShippedPayload)
          /\ log_segments = << >>
          /\ \E service \in Services, config \in Configs :
                cmdb_entries = <<Entry("prod", service, config)>>
          /\ fs_paths \in {{}, {TrivyLogs}}

AnalyzeSegment == ProcessSegmentWith(BertOutcomes, RunGenOutcomes)

NextFinding ==
    \/ AnalyzeSegment
    \/ AuditEntry

SpecFinding == InitFinding /\ [][NextFinding]_vars

---------------------------------------------------------------------------
(* Direct calls of get_severity and generate_custom_suggestion *)

MaxScore == 100 * Percent

SeverityCalls ==
    [fn : {"get_severity"}, score : 0..MaxScore, returned : {FALSE}, result : {"none"}]

CallServices ==
    {"Jenkins", "SonarQube", "Trivy", "Kubernetes", "SpringBoot", "Other",
     "Nexus", "jenkins", ""}

CallIssues ==
    {None,
     <<"Missing", "Git", "configuration">>,
     <<"Git", "credentials", "not", "configured">>,
     <<"Pipeline", "failed">>,
     <<"SonarQube", "unreachable">>,
     <<"Sonar", "report", "missing">>,
     <<"Trivy", "log", "missing">>,
     <<"stage", "deploy:", "pipeline", "failed", "twice">>,
     <<"Disk", "full">>}

SuggestionCalls ==
    [fn : {"generate_custom_suggestion"}, service : CallServices,
     problem_type : {"Information", "Pipeline Failure"}, critical_issue : CallIssues,
     context : {<<"INFO:", "build", "finished">>},
     codet5_tokenizer : BOOLEAN, codet5_model : BOOLEAN, gen : GenOutcomes,
     returned : {FALSE}, result : {Raised}]

InitCall ==
    /\ log_file = UnreadLog
    /\ cmdb_file = "unread"
    /\ synth_logs = NoSummary
    /\ synth_cmdb = NoSummary
    /\ report_file = << >>
    /\ pc = "call"
    /\ codebert_tokenizer = FALSE
    /\ codebert_model = FALSE
    /\ codet5_tokenizer = FALSE
    /\ codet5_model = FALSE
    /\ log_segments = << >>
    /\ results = << >>
    /\ details = << >>
    /\ cmdb_entries = << >>
    /\ fs_paths = {}
    /\ cmdb_results = << >>
    /\ calls = [codebert |-> << >>, codet5 |-> << >>]
    /\ \/ /\ call \in SeverityCalls
          /\ CODET5_SUGGESTIONS = LoadCodeT5Suggestions(ShippedPayload)
       \/ /\ call \in SuggestionCalls
          /\ CODET5_SUGGESTIONS \in {LoadCodeT5Suggestions(p) : p \in Payloads}

CallGetSeverity ==
    /\ pc = "call"
    /\ call.fn = "get_severity"
    /\ ~call.returned
    /\ call' = [call EXCEPT !.returned = TRUE, !.result = get_severity(call.score)]
    /\ UNCHANGED <<pc, CODET5_SUGGESTIONS, codebert_tokenizer, codebert_model,
                   codet5_tokenizer, codet5_model, log_segments, results, details,
                   cmdb_entries, fs_paths, cmdb_results, calls,
                   log_file, cmdb_file, synth_logs, synth_cmdb, report_file>>

CallGenerateCustomSuggestion ==
    /\ pc = "call"
    /\ call.fn = "generate_custom_suggestion"
    /\ ~call.returned
    /\ call' = [call EXCEPT
                  !.returned = TRUE,
                  !.result = generate_custom_suggestion(CODET5_SUGGESTIONS,
                                 call.service, call.problem_type, call.critical_issue,
                                 call.context, call.codet5_tokenizer, call.codet5_model,
                                 call.gen)]
    /\ UNCHANGED <<pc, CODET5_SUGGESTIONS, codebert_tokenizer, codebert_model,
                   codet5_tokenizer, codet5_model, log_segments, results, details,
                   cmdb_entries, fs_paths, cmdb_results, calls,
                   log_file, cmdb_file, synth_logs, synth_cmdb, report_file>>

NextCall ==
    \/ CallGetSeverity
    \/ CallGenerateCustomSuggestion

SpecCall == InitCall /\ [][NextCall]_vars

---------------------------------------------------------------------------
(* Direct calls of print_summary_table on lists of Findings *)

ScoreSamples == {30 * Percent, 50 * Percent, 7501}

\* Findings of one segment that differ by their score
SummaryFindings ==
    LET seg == <<"INFO:", "build", "finished">>
    IN  {Finding(detect_issues(seg), score, seg, <<"Check", "the", "logs.">>) :
            score \in ScoreSamples}

InitSummary ==
    /\ pc = "summary"
    /\ CODET5_SUGGESTIONS = LoadCodeT5Suggestions(ShippedPayload)
    /\ codebert_tokenizer = FALSE
    /\ codebert_model = FALSE
    /\ codet5_tokenizer = FALSE
    /\ codet5_model = FALSE
    /\ log_segments = << >>
    /\ results \in SeqsUpTo(SummaryFindings, MaxFindings)
    /\ details = << >>
    /\ cmdb_entries = << >>
    /\ fs_paths = {}
    /\ cmdb_results = << >>
    /\ calls = [codebert |-> << >>, codet5 |-> << >>]
    /\ call = [fn |-> "none"]
    /\ log_file = UnreadLog
    /\ cmdb_file = "unread"
    /\ synth_logs = NoSummary
    /\ synth_cmdb = NoSummary
    /\ report_file = << >>

\* lines 533-560
PrintSummaryTable ==
    /\ pc = "summary"
    /\ synth_logs' = print_summary_table(results, "logs")
    /\ pc' = "summarised"
    /\ UNCHANGED <<CODET5_SUGGESTIONS, codebert_tokenizer, codebert_model,
                   codet5_tokenizer, codet5_model, log_segments, results, details,
                   cmdb_entries, fs_paths, cmdb_results, calls, call,
                   log_file, cmdb_file, synth_cmdb, report_file>>

NextSummary == PrintSummaryTable

SpecSummary == InitSummary /\ [][NextSummary]_vars

---------------------------------------------------------------------------
(* Runs one after the other: the calls of save_output_to_file on one file *)

\* reports as main() hands them over, and one with colour codes and with an
\* escape sequence that is not a colour code
Reports ==
    {<<"DEEP LOG ANALYSIS", "Log file not found", "CMDB CONFIGURATION AUDIT">>,
     <<"DEEP LOG ANALYSIS", "DETAILED DIAGNOSTIC BY SERVICE", "Jenkins",
       "SYNTHESIS - LOG ANALYSIS", "CMDB CONFIGURATION AUDIT">>,
     <<"ESC[31m", "DEEP LOG ANALYSIS", "ESC[0m", "ESC[2K", "CMDB CONFIGURATION AUDIT">>}

InitSink ==
    /\ pc = "sink"
    /\ CODET5_SUGGESTIONS = LoadCodeT5Suggestions(ShippedPayload)
    /\ codebert_tokenizer = FALSE
    /\ codebert_model = FALSE
    /\ codet5_tokenizer = FALSE
    /\ codet5_model = FALSE
    /\ log_segments = << >>
    /\ results = << >>
    /\ details = << >>
    /\ cmdb_entries = << >>
    /\ fs_paths = {}
    /\ cmdb_results = << >>
    /\ calls = [codebert |-> << >>, codet5 |-> << >>]
    /\ call = [fn |-> "save_output_to_file", run |-> 0, content |-> << >>,
               timestamp |-> "", raises |-> FALSE, printed |-> "", raised |-> FALSE]
    /\ log_file = UnreadLog
    /\ cmdb_file = "unread"
    /\ synth_logs = NoSummary
    /\ synth_cmdb = NoSummary
    /\ report_file \in {<< >>, EarlierReports}

\* lines 83-107 at the end of one more run
SaveOutput ==
    /\ pc = "sink"
    /\ call.run < MaxRuns
    /\ \E content \in Reports, timestamp \in Timestamps, outcome \in SaveOutcomes :
          LET saved == save_output_to_file(report_file, content, timestamp, outcome)
          IN  /\ report_file' = saved.file
              /\ call' = [fn |-> "save_output_to_file", run |-> call.run + 1,
                          content |-> content, timestamp |-> timestamp,
                          raises |-> outcome.raises, printed |-> saved.printed,
                          raised |-> saved.raised]
    /\ UNCHANGED <<pc, CODET5_SUGGESTIONS, codebert_tokenizer, codebert_model,
                   codet5_tokenizer, codet5_model, log_segments, results, details,
                   cmdb_entries, fs_paths, cmdb_results, calls,
                   log_file, cmdb_file, synth_logs, synth_cmdb>>

NextSink == SaveOutput

SpecSink == InitSink /\ [][NextSink]_vars

---------------------------------------------------------------------------
(* The claims *)

Bit(b) == IF b THEN 1 ELSE 0

\* the heuristic score of the text and critical issue of a log Finding
HeuristicOf(f) ==
    Min(100 * Percent,
        (30 + 40 * Bit(MatchesErrorPattern(f.segment))
            + 15 * Bit(MatchesWarningPattern(f.segment))
            + 10 * Bit(Truthy(f.critical_issue))) * Percent)

SuggestionReturned == call.fn = "generate_custom_suggestion" /\ call.returned

IssueInCatalog ==
    /\ SuggestionReturned
    /\ Truthy(call.critical_issue)
    /\ IssueMatches(CODET5_SUGGESTIONS, call.critical_issue) # {}

CannedForIssue ==
    CODET5_SUGGESTIONS[First(IssueMatches(CODET5_SUGGESTIONS, call.critical_issue))][2]

\* a generative collaborator is configured and answers with a non-blank text
GenerativeAnswers ==
    /\ call.codet5_tokenizer
    /\ call.codet5_model
    /\ ~call.gen.raises
    /\ Truthy(Strip(call.gen.text))

SomeLoadFailed ==
    /\ pc # "load_models"
    /\ ~(codebert_tokenizer /\ codebert_model /\ codet5_tokenizer /\ codet5_model)

\* C2, as claimed: when any of the four loads failed, every log Finding has the
\* heuristic score and no generative call is made.
C2_AnyLoadFailureIsFallbackOnly ==
    SomeLoadFailed =>
        /\ \A i \in 1..Len(results) : results[i].score = HeuristicOf(results[i])
        /\ calls.codet5 = << >>

\* C3, as claimed: every Finding, of a log segment or of a CMDB entry, has a
\* non-empty suggestion.
C3_SuggestionNeverEmpty ==
    /\ \A i \in 1..Len(results) : Truthy(results[i].suggestion)
    /\ \A i \in 1..Len(cmdb_results) : Truthy(cmdb_results[i].suggestion)

IsSonarQube991(e) ==
    /\ e.service = "sonarqube"
    /\ DOMAIN e.config = {"version"}
    /\ e.config["version"] = <<"9", ".", "9", ".", "1">>

HasUnsupportedVersionIssue(f) ==
    \E j \in 1..Len(f.issues) :
        f.issues[j] = "SonarQube 9.9 may not be fully supported; consider 10.x LTS"

\* C4, as claimed: the audit of sonarqube {"version": "9.9.1"} lists the
\* unsupported-version issue and scores at least 70.
C4_ScoreAtLeast70 ==
    \A i \in 1..Len(cmdb_results) :
        IsSonarQube991(cmdb_entries[i]) =>
            /\ HasUnsupportedVersionIssue(cmdb_results[i])
            /\ cmdb_results[i].score >= 70 * Percent

\* C4, amended: the audit of sonarqube {"version": "9.9.1"} lists the
\* unsupported-version issue and scores exactly 65: 30 base, 30 for the
\* issue and 5 for the one key of the config.
C4_ScoreIs65 ==
    \A i \in 1..Len(cmdb_results) :
        IsSonarQube991(cmdb_entries[i]) =>
            /\ HasUnsupportedVersionIssue(cmdb_results[i])
            /\ cmdb_results[i].score = 65 * Percent

C4_Witness ==
    \E i \in 1..Len(cmdb_results) :
        /\ IsSonarQube991(cmdb_entries[i])
        /\ cmdb_results[i].score = 65 * Percent

BertLoaded == codebert_tokenizer /\ codebert_model

LogsAnalysed == pc \in {"report_logs", "load_cmdb", "audit", "done"} \/ cmdb_file # "unread"

\* main() ended by an error raised before load_cmdb was reached
CrashedInLogAnalysis == pc = "crashed" /\ cmdb_file = "unread"

\* C5, as claimed: with the models loaded, a segment whose scoring call fails
\* still yields a Finding, with the heuristic score, and the later segments
\* are processed.
C5_FailedCallGetsHeuristic ==
    /\ ~CrashedInLogAnalysis
    /\ BertLoaded =>
          /\ Len(calls.codebert) = Len(results)
          /\ \A i \in 1..Len(results) :
                calls.codebert[i] # "logits" => results[i].score = HeuristicOf(results[i])
    /\ LogsAnalysed => Len(results) = Len(log_segments)

\* C5, amended: with the models loaded, a segment whose scoring call fails
\* still yields a Finding, with the fixed score 50.0, and the later segments
\* are processed: there is one Finding per segment when analyze_logs returns.
C5_FailedCallGets50 ==
    /\ ~CrashedInLogAnalysis
    /\ BertLoaded =>
          /\ Len(calls.codebert) = Len(results)
          /\ \A i \in 1..Len(results) :
                calls.codebert[i] # "logits" => results[i].score = 50 * Percent
    /\ LogsAnalysed => Len(results) = Len(log_segments)

C5_Witness ==
    /\ pc = "done"
    /\ BertLoaded
    /\ Len(log_segments) = 2
    /\ Len(results) = 2
    /\ calls.codebert = <<"call_raises", "logits">>
    /\ results[1].score = 50 * Percent
    /\ results[1].score # HeuristicOf(results[1])

\* C6: every Finding, of a log segment or of a CMDB entry, has a score in
\* [0, 100].
C6_ScoreInRange ==
    /\ \A i \in 1..Len(results) :
          results[i].score >= 0 /\ results[i].score <= 100 * Percent
    /\ \A i \in 1..Len(cmdb_results) :
          cmdb_results[i].score >= 0 /\ cmdb_results[i].score <= 100 * Percent

\* an audit whose base, weights and keys add up to 105
C6_Witness ==
    \E i \in 1..Len(cmdb_results) :
          /\ Len(cmdb_results[i].issues) = 2
          /\ Cardinality(DOMAIN cmdb_entries[i].config) = 7
          /\ cmdb_results[i].score = 100 * Percent

\* C7: get_severity returns high exactly for score > 75, medium exactly for
\* 50 < score <= 75 and low exactly for score <= 50.
C7_SeverityThresholds ==
    (call.fn = "get_severity" /\ call.returned) =>
        /\ call.result \in {"high", "medium", "low"}
        /\ call.result = "high" <=> call.score > 75 * Percent
        /\ call.result = "medium" <=> (call.score > 50 * Percent /\ call.score <= 75 * Percent)
        /\ call.result = "low" <=> call.score <= 50 * Percent

C7_Witness ==
    /\ call.fn = "get_severity"
    /\ call.returned
    /\ call.score = 75 * Percent
    /\ call.result = "medium"

\* C8: the classifier takes the first rule that matches, in the order Jenkins,
\* SonarQube, Trivy, Kubernetes, SpringBoot: the Finding of a segment has the
\* service, type and critical issue of that rule alone, and those of "Other"
\* when no rule matches.
C8_FirstMatchWins ==
    \A i \in 1..Len(results) :
        LET seg == results[i].segment
            got == Issue(results[i].service, results[i].type, results[i].critical_issue)
            J == HasJenkinsMarker(seg)
            S == HasSonarQubeMarker(seg)
            T == HasTrivyMarker(seg)
            K == HasKubernetesMarker(seg)
            B == HasSpringBootMarker(seg)
        IN  /\ J => got = JenkinsIssue(seg)
            /\ (~J /\ S) => got = SonarQubeIssue(seg)
            /\ (~J /\ ~S /\ T) => got = TrivyIssue(seg)
            /\ (~J /\ ~S /\ ~T /\ K) => got = Issue("Kubernetes", "Configuration", None)
            /\ (~J /\ ~S /\ ~T /\ ~K /\ B) => got = Issue("SpringBoot", "Test Execution", None)
            /\ (~J /\ ~S /\ ~T /\ ~K /\ ~B) => got = Issue("Other", "Information", None)

C8_Witness ==
    \E i \in 1..Len(results) :
        /\ HasJenkinsMarker(results[i].segment)
        /\ HasSonarQubeMarker(results[i].segment)
        /\ Contains(results[i].segment, <<"can", "not", "be", "reached">>)
        /\ results[i].service = "Jenkins"
        /\ results[i].critical_issue = <<"Pipeline", "failed">>

\* C9: without CodeBERT the score of a segment is
\* min(100, 30 + 40 [error pattern] + 15 [warning pattern] + 10 [critical issue]).
C9_FallbackScoreFormula ==
    ~BertLoaded =>
        \A i \in 1..Len(results) : results[i].score = HeuristicOf(results[i])

C9_Witness ==
    /\ ~BertLoaded
    /\ \E i \in 1..Len(results) :
          /\ MatchesErrorPattern(results[i].segment)
          /\ MatchesWarningPattern(results[i].segment)
          /\ Truthy(results[i].critical_issue)
          /\ results[i].score = 95 * Percent

\* C10: generate_custom_suggestion returns, and returns a non-empty text, for
\* every service, problem type, critical issue and behaviour of the
\* generative call.
C10_SuggestionTotalNonEmpty ==
    SuggestionReturned => (~call.result.raised /\ Truthy(call.result.value))

C10_Witness ==
    /\ SuggestionReturned
    /\ call.service = "Nexus"
    /\ call.codet5_tokenizer
    /\ call.codet5_model
    /\ call.gen.raises
    /\ call.result = Returned(GeneralRecommendation("Nexus", call.problem_type))

---------------------------------------------------------------------------
(* C11: one Finding per segment, in the order of the log *)

\* a blank line (two consecutive newlines) begins at position i of the text
BlankLineAt(text, i) == i < Len(text) /\ text[i] = "\n" /\ text[i + 1] = "\n"

\* The non-empty blank-line-delimited segments of a text, read off the text
\* in one pass from position i on.  A segment is open when visible text was
\* seen and no blank line since: a visible token met while none is open
\* begins a segment,
RECURSIVE SegmentStarts(_, _, _)
SegmentStarts(text, i, open) ==
    IF i > Len(text) THEN << >>
    ELSE IF ~IsSpace(text[i])
    THEN (IF open THEN << >> ELSE <<i>>) \o SegmentStarts(text, i + 1, TRUE)
    ELSE SegmentStarts(text, i + 1, open /\ ~BlankLineAt(text, i))

\* and, read from the end backwards, a visible token met while none is open
\* ends one
RECURSIVE SegmentEnds(_, _, _)
SegmentEnds(text, i, open) ==
    IF i < 1 THEN << >>
    ELSE IF ~IsSpace(text[i])
    THEN SegmentEnds(text, i - 1, TRUE) \o (IF open THEN << >> ELSE <<i>>)
    ELSE SegmentEnds(text, i - 1, open /\ ~BlankLineAt(text, i - 1))

\* main() is past the detail section and the table of the log Findings
LogsReported == pc \in {"load_cmdb", "audit", "done"} \/ cmdb_file # "unread"

\* C11: the log yields exactly one Finding per non-empty blank-line-delimited
\* segment, and the Findings, the detail entries and the rows of the summary
\* table are in the order of the segments in the log: the i-th Finding, the
\* i-th detail entry and the i-th row are those of the i-th segment.
C11_OneFindingPerSegmentInOrder ==
    /\ log_file.state = "read" =>
          LET starts == SegmentStarts(log_file.text, 1, FALSE)
              ends == SegmentEnds(log_file.text, Len(log_file.text), FALSE)
          IN  /\ Len(results) <= Len(starts)
              /\ LogsAnalysed => Len(results) = Len(starts)
              /\ \A i \in 1..Len(results) :
                    results[i].segment = SubSeq(log_file.text, starts[i], ends[i])
    /\ LogsReported =>
          /\ Len(details) = Len(results)
          /\ Len(synth_logs.table) = Len(results)
          /\ \A i \in 1..Len(results) :
                /\ details[i].id = i
                /\ details[i].service = results[i].service
                /\ details[i].type = results[i].type
                /\ details[i].score = results[i].score
                /\ synth_logs.table[i].id = i
                /\ synth_logs.table[i].service = results[i].service
                /\ synth_logs.table[i].desc = results[i].type
                /\ synth_logs.table[i].score = results[i].score

\* a log of two segments of different services, a blank line with a third
\* newline between them, analysed and reported
C11_Witness ==
    /\ pc = "done"
    /\ Contains(log_file.text, <<"\n", "\n", "\n">>)
    /\ Len(results) = 2
    /\ results[1].service = "Jenkins"
    /\ results[2].service = "Other"
    /\ Len(details) = 2
    /\ Len(synth_logs.table) = 2

---------------------------------------------------------------------------
(* C12: the top 3 of print_summary_table *)

\* C12: the ranking lists min(3, number of Findings) Findings, each once, in
\* descending order of score; no Finding left out has a higher score than a
\* listed one; listed Findings of equal score are in their original order.
C12_Top3DescendingStable ==
    pc = "summarised" =>
        LET top == synth_logs.top3
            listed == {top[i] : i \in 1..Len(top)}
        IN  /\ Len(top) = Min(3, Len(results))
            /\ listed \subseteq 1..Len(results)
            /\ Cardinality(listed) = Len(top)
            /\ \A i, j \in 1..Len(top) :
                  i < j =>
                    /\ results[top[i]].score >= results[top[j]].score
                    /\ results[top[i]].score = results[top[j]].score => top[i] < top[j]
            /\ \A k \in (1..Len(results)) \ listed :
                  \A i \in 1..Len(top) : results[k].score <= results[top[i]].score

\* four Findings, the second the highest and the three others tied: the
\* ranking is the second, then the first and the third
C12_Witness ==
    /\ pc = "summarised"
    /\ Len(results) = 4
    /\ results[1].score = 50 * Percent
    /\ results[2].score = 7501
    /\ results[3].score = 50 * Percent
    /\ results[4].score = 50 * Percent
    /\ synth_logs.top3 = <<2, 1, 3>>

---------------------------------------------------------------------------
(* C13: the score of a CMDB audit *)

\* what the code adds to the base score with each issue it appends
IssueWeight(issue) ==
    CASE issue = "Jenkins version seems outdated" -> 30
      [] issue = "SonarQube 9.9 may not be fully supported; consider 10.x LTS" -> 30
      [] issue = "Trivy version is older than recommended" -> 20
      [] issue = "Trivy logs path is missing or inaccessible" -> 20
      [] issue = "Minikube version is outdated" -> 20
      [] issue = "Resource limits not configured for Spring Boot container" -> 30

RECURSIVE SumOfWeights(_)
SumOfWeights(issues) ==
    IF issues = << >> THEN 0
    ELSE IssueWeight(Head(issues)) + SumOfWeights(Tail(issues))

\* min(100, 30 + weights + 5 * keys), in hundredths of a percent
ScoreFormula(weights, keys) ==
    (IF 30 + weights + 5 * keys > 100 THEN 100 ELSE 30 + weights + 5 * keys) * Percent

RecognizedServices ==
    {"jenkins", "sonarqube", "trivy", "minikube", "springboot-app", "springboot"}

\* the config without one of its keys
WithoutKey(config, key) == [k \in (DOMAIN config) \ {key} |-> config[k]]

\* C13: the score of a CMDB audit is min(100, 30 + the weights of the issues
\* it lists + 5 for each key of the config); it is at most 100; with fewer
\* keys, or with fewer of its issues, the formula never gives more, and the
\* audit of the same entry without one key, when it lists the same issues,
\* never scores more; and an unrecognized service with an empty config
\* scores 30 with no issue.
C13_AuditScoreFormula ==
    \A i \in 1..Len(cmdb_results) :
        LET f == cmdb_results[i]
            e == cmdb_entries[i]
            keys == Cardinality(DOMAIN e.config)
        IN  /\ f.score = ScoreFormula(SumOfWeights(f.issues), keys)
            /\ f.score <= 100 * Percent
            /\ \A k \in 0..keys : ScoreFormula(SumOfWeights(f.issues), k) <= f.score
            /\ \A n \in 0..Len(f.issues) :
                  ScoreFormula(SumOfWeights(SubSeq(f.issues, 1, n)), keys) <= f.score
            /\ \A key \in DOMAIN e.config :
                  LET g == analyze_service_config(e.service, WithoutKey(e.config, key),
                                                  e.env, fs_paths)
                  IN  g.issues = f.issues => g.score <= f.score
            /\ (LowerWord(e.service) \notin RecognizedServices /\ keys = 0) =>
                  (f.score = 30 * Percent /\ f.issues = << >>)

\* the audit of an unrecognized service with the config {}
C13_Witness ==
    \E i \in 1..Len(cmdb_results) :
        /\ cmdb_entries[i].service = "nexus"
        /\ DOMAIN cmdb_entries[i].config = {}
        /\ cmdb_results[i].score = 30 * Percent
        /\ cmdb_results[i].issues = << >>

---------------------------------------------------------------------------
(* C14: missing and malformed inputs *)

\* the CMDB file does not hold a JSON document: its text does not parse
\* (reported by json as a JSONDecodeError, or ended by the depth of its
\* unclosed nesting), or its bytes are not the UTF-8 that JSON text is made of
MalformedJson == {"invalid_syntax", "invalid_nesting", "invalid_encoding"}

\* the log is absent, or the CMDB is absent or malformed; the other input is
\* one the run can use
InputMissingOrMalformed ==
    /\ log_file.state = "absent" \/ cmdb_file \in {"absent"} \cup MalformedJson
    /\ cmdb_file # "not_a_mapping"

\* C14: a missing or malformed input degrades only its own stream.  With the
\* log absent there is no log Finding and the CMDB is still audited, one
\* Finding per entry; with the CMDB absent or malformed there is no CMDB
\* Finding and the log Findings are still reported; and in each of these
\* cases main() is not ended by an error: it goes on to the save.
C14_MissingInputDegradesOwnStream ==
    /\ log_file.state = "absent" =>
          /\ results = << >>
          /\ pc = "done" => Len(cmdb_results) = Len(cmdb_entries)
    /\ cmdb_file \in {"absent"} \cup MalformedJson =>
          /\ cmdb_results = << >>
          /\ Len(details) = Len(results)
    /\ InputMissingOrMalformed => pc # "crashed"

---------------------------------------------------------------------------
(* C15: the report file is append-only *)

\* how many times a token occurs in a text
RECURSIVE Occurrences(_, _)
Occurrences(text, token) ==
    IF text = << >> THEN 0
    ELSE (IF Head(text) = token THEN 1 ELSE 0) + Occurrences(Tail(text), token)

\* a colour code: ESC [ digits and semicolons m
IsColourCode(t) == t \in {"ESC[33;1m", "ESC[0m", "ESC[31m", "ESC[m"}

\* the text without its colour codes
WithoutColourCodes(text) == SelectSeq(text, LAMBDA t : ~IsColourCode(t))

\* C15: over any sequence of runs the report file only grows at its end: its
\* content before a run is a prefix of its content after; a run that saves
\* successfully appends exactly one timestamp header, followed by the report
\* of that run without its style markup and nothing else; and a failure of
\* the save is reported and not raised.
C15_ReportFileAppendOnly ==
    [][/\ Len(report_file) <= Len(report_file')
       /\ SubSeq(report_file', 1, Len(report_file)) = report_file
       /\ call'.printed = "Results saved" =>
             LET appended == SubSeq(report_file', Len(report_file) + 1, Len(report_file'))
                 body == SubSeq(appended, HeaderLen + 1, Len(appended))
             IN  /\ ~call'.raises
                 /\ SubSeq(appended, 1, HeaderLen) = FileHeader(call'.timestamp)
                 /\ Occurrences(appended, "ANALYSIS TIMESTAMP:") = 1
                 /\ body = WithoutColourCodes(call'.content) \o <<"\n">>
                 /\ \A i \in 1..Len(body) : ~IsColourCode(body[i])
       /\ call'.raises => call'.printed = "Error saving results"
       /\ ~call'.raised]_vars

\* after an earlier report and a run whose save failed with only the header
\* written, a run has saved a report that came with colour codes
C15_Witness ==
    /\ pc = "sink"
    /\ call.run = 2
    /\ call.printed = "Results saved"
    /\ \E i \in 1..Len(call.content) : IsColourCode(call.content[i])
    /\ StartsWith(report_file, EarlierReports)
    /\ Occurrences(report_file, "ANALYSIS TIMESTAMP:") = 2
    /\ Len(report_file) = Len(EarlierReports) + 2 * HeaderLen + 4

====
